---- MODULE Spec2Model ----
(***************************************************************************)
(* Model of hugotranslationstudy: the Hugo-shortcode -> Markdoc-tag        *)
(* converter (internal/tomarkdoc), the text-span extraction and the        *)
(* span-splice translation (main package), and the Pig Latin transformer   *)
(* (internal/piglatin).                                                    *)
(*                                                                         *)
(* Buffers are sequences of bytes; a byte is a one-character string, and   *)
(* the two bytes of the UTF-8 encoding of U+00E9 are written "C3" and "A9".*)
(* Offsets and token indices are 0-based, as in the Go source; Slice and   *)
(* At translate them to TLA+'s 1-based sequences.                          *)
(***************************************************************************)
EXTENDS Integers, Sequences, FiniteSets, TLC

(* ------------------------------ bounds --------------------------------- *)

\* Longest document, in pieces of DocPieces, that Init enumerates (the
\* documents of ScenarioDocs come on top).
MaxPieces == 3

\* Longest span list handed to translateBodyUsingRanges.
MaxSpans == 2

\* The longest word handed to pigWord.
MaxWord == 3

\* The longest token stream handed to renderToMdoc directly.
MaxToks == 4

\* The most tags and text runs in a stream made of whole tags.
MaxTags == 3

(* --------------------------- byte strings ------------------------------ *)

\* s[lo:hi] of Go, for 0 <= lo <= hi <= len(s).
Slice(s, lo, hi) == SubSeq(s, lo + 1, hi)

\* s[k] of Go.
At(s, k) == s[k + 1]

RECURSIVE Concat(_)
\* The concatenation of a sequence of byte strings.
Concat(ss) == IF ss = << >> THEN << >> ELSE Head(ss) \o Concat(Tail(ss))

LowerLetters ==
    <<"a","b","c","d","e","f","g","h","i","j","k","l","m",
      "n","o","p","q","r","s","t","u","v","w","x","y","z">>

UpperLetters ==
    <<"A","B","C","D","E","F","G","H","I","J","K","L","M",
      "N","O","P","Q","R","S","T","U","V","W","X","Y","Z">>

Range(f) == {f[k] : k \in DOMAIN f}

\* unicode.IsSpace on the bytes of the model.
IsSpaceByte(c) == c \in {" ", "\t", "\n", "\r"}

RECURSIVE TrimLeft(_)
TrimLeft(s) ==
    IF s # << >> /\ IsSpaceByte(Head(s)) THEN TrimLeft(Tail(s)) ELSE s

RECURSIVE TrimRight(_)
TrimRight(s) ==
    IF s # << >> /\ IsSpaceByte(s[Len(s)])
    THEN TrimRight(SubSeq(s, 1, Len(s) - 1))
    ELSE s

\* strings.TrimSpace
TrimSpace(s) == TrimRight(TrimLeft(s))

\* strings.HasPrefix
HasPrefix(s, p) == Len(s) >= Len(p) /\ SubSeq(s, 1, Len(p)) = p

RECURSIVE TakeField(_)
\* The longest prefix of s without white space.
TakeField(s) ==
    IF s = << >> \/ IsSpaceByte(Head(s)) THEN << >>
    ELSE <<Head(s)>> \o TakeField(Tail(s))

\* strings.Fields(s)[0], or "" when strings.Fields(s) is empty.
FirstField(s) == TakeField(TrimLeft(s))

(* ------------------------- pageparser's lexer --------------------------- *)
(* tokenizeShortcodes and parseAndWriteJSON iterate the items of           *)
(* pageparser.ParseMain (github.com/gohugoio/hugo v0.150.1, go.mod).  The  *)
(* lexer is modelled state function by state function over the bytes the   *)
(* documents of the model use: text, the two delimiter styles, "/", white  *)
(* space, names, positional parameters and double-quoted positional        *)
(* parameters.  White space and quotes inside a shortcode are ignored by   *)
(* the lexer (l.ignore()): no item covers them.  An error ends the item    *)
(* list with a tError item.                                                *)

EOFByte == "eof"

isSpace(r) == r \in {" ", "\t"}

isEndOfLine(r) == r \in {"\r", "\n"}

isAlphaNumeric(r) ==
    r \in Range(LowerLetters) \cup Range(UpperLetters) \cup {"_", "C3", "A9"}

isAlphaNumericOrHyphen(r) == isAlphaNumeric(r) \/ r = "-"

leftDelimScNoMarkup == <<"{", "{", "<">>

leftDelimScWithMarkup == <<"{", "{", "%">>

rightDelimScNoMarkup == <<">", "}", "}">>

rightDelimScWithMarkup == <<"%", "}", "}">>

\* l.hasPrefix(p): the input at l.pos starts with p.
lexHasPrefix(l, p) ==
    /\ l.pos + Len(p) <= Len(l.input)
    /\ Slice(l.input, l.pos, l.pos + Len(p)) = p

\* The byte l.next() returns, EOFByte at the end of the input.
lexPeek(l) == IF l.pos >= Len(l.input) THEN EOFByte ELSE At(l.input, l.pos)

\* l.pos after l.next(): the end of the input has width 0.
lexAfterNext(l) == IF l.pos >= Len(l.input) THEN l.pos ELSE l.pos + 1

currentRightShortcodeDelim(l) ==
    IF l.style = "WithMarkup" THEN rightDelimScWithMarkup ELSE rightDelimScNoMarkup

\* l.emit(typ): the item input[start:pos], and start moves to pos.
lexEmit(l, typ) ==
    [l EXCEPT !.items = Append(@, [Type |-> typ, low |-> l.start, high |-> l.pos]),
              !.start = l.pos]

\* l.errorf: a tError item, and the lexer stops.
lexErrorf(l) ==
    [l EXCEPT !.items = Append(@, [Type |-> "tError", low |-> l.start, high |-> l.pos]),
              !.start = l.pos,
              !.state = "stop"]

\* lexDone: the pending text, then tEOF.
lexDone(l) ==
    LET t == IF l.pos > l.start THEN lexEmit(l, "tText") ELSE l
    IN  [lexEmit(t, "tEOF") EXCEPT !.state = "stop"]

lexMainSection(l) ==
    IF l.pos >= Len(l.input) THEN lexDone(l)
    ELSE IF lexHasPrefix(l, leftDelimScWithMarkup) \/ lexHasPrefix(l, leftDelimScNoMarkup)
    THEN LET t == IF l.pos > l.start THEN lexEmit(l, "tText") ELSE l
         IN  [t EXCEPT !.style = IF lexHasPrefix(l, leftDelimScWithMarkup)
                                 THEN "WithMarkup" ELSE "NoMarkup",
                       !.state = "lexShortcodeLeftDelim"]
    ELSE [l EXCEPT !.pos = @ + 1]

lexShortcodeLeftDelim(l) ==
    LET t == lexEmit([l EXCEPT !.pos = @ + 3], "tLeftDelimSc" \o l.style)
    IN  [t EXCEPT !.elementStepNum = 0, !.paramElements = 0,
                  !.state = "lexInsideShortcode"]

\* lexShortcodeRightDelim emitting the NoMarkup item whatever the style of
\* the left delimiter was.
lexShortcodeRightDelimNoMarkup(l) ==
    LET t == lexEmit([l EXCEPT !.pos = @ + 3, !.closingState = 0],
                     "tRightDelimScNoMarkup")
    IN  [t EXCEPT !.state = "lexMainSection"]

lexShortcodeRightDelim(l) ==
    LET t == lexEmit([l EXCEPT !.pos = @ + 3, !.closingState = 0],
                     "tRightDelimSc" \o l.style)
    IN  [t EXCEPT !.state = "lexMainSection"]

lexInsideShortcode(l) ==
    IF lexHasPrefix(l, currentRightShortcodeDelim(l))
    THEN [l EXCEPT !.state = "lexShortcodeRightDelim"]
    ELSE LET r == lexPeek(l)
             n == [l EXCEPT !.pos = lexAfterNext(l)]
         IN  IF r = EOFByte THEN lexErrorf(n)
             ELSE IF isSpace(r) \/ isEndOfLine(r) THEN [n EXCEPT !.start = n.pos]
             ELSE IF r = "/"
             THEN IF l.currShortcodeName = << >> THEN lexErrorf(n)
                  ELSE lexEmit([n EXCEPT !.closingState = @ + 1], "tScClose")
             ELSE IF l.elementStepNum > 0 /\ (isAlphaNumericOrHyphen(r) \/ r = "\"")
             THEN [l EXCEPT !.state = "lexShortcodeParam"]
             ELSE IF isAlphaNumeric(r)
             THEN [l EXCEPT !.state = "lexIdentifierInShortcode"]
             ELSE lexErrorf(n)

AlphaNumericOrHyphen ==
    Range(LowerLetters) \cup Range(UpperLetters) \cup {"_", "C3", "A9", "-"}

RECURSIVE lexScan(_, _, _, _)
\* The first offset >= p of input whose byte is in S (stopAt) or is not in S
\* (not stopAt); len(input) if there is none.
lexScan(input, p, S, stopAt) ==
    IF p < Len(input) /\ ((At(input, p) \in S) # stopAt)
    THEN lexScan(input, p + 1, S, stopAt)
    ELSE p

lexIdentifierInShortcode(l) ==
    LET e == lexScan(l.input, l.pos, AlphaNumericOrHyphen \cup {"/"}, FALSE)
        word == Slice(l.input, l.start, e)
        n == [l EXCEPT !.pos = e]
    IN  IF l.closingState > 0 /\ word \notin l.openShortcodes THEN lexErrorf(n)
        ELSE [lexEmit(n, "tScName") EXCEPT
                  !.closingState = 0,
                  !.currShortcodeName = word,
                  !.openShortcodes = @ \cup {word},
                  !.elementStepNum = @ + 1,
                  !.state = IF l.closingState > 0 THEN "lexEndOfShortcode"
                            ELSE "lexInsideShortcode"]

lexEndOfShortcode(l) ==
    IF lexHasPrefix(l, currentRightShortcodeDelim(l))
    THEN [l EXCEPT !.state = "lexShortcodeRightDelim"]
    ELSE LET n == [l EXCEPT !.pos = lexAfterNext(l)]
         IN  IF isSpace(lexPeek(l)) THEN [n EXCEPT !.start = n.pos] ELSE lexErrorf(n)

\* lexShortcodeQuotedParamVal, entered on the opening quote.
lexShortcodeQuotedParamVal(l) ==
    LET open == l.pos + 1
        q == lexScan(l.input, open, {"\"", "\n"}, TRUE)
    IN  IF q >= Len(l.input) \/ At(l.input, q) # "\""
        THEN lexErrorf([l EXCEPT !.start = open, !.pos = IF q < Len(l.input) THEN q + 1 ELSE q])
        ELSE [lexEmit([l EXCEPT !.start = open, !.pos = q], "tScParam") EXCEPT
                  !.pos = q + 1, !.start = q + 1,
                  !.state = "lexInsideShortcode"]

lexShortcodeParam(l) ==
    IF lexPeek(l) = "\""
    THEN [l EXCEPT !.paramElements = 1, !.state = "lexShortcodeQuotedParamVal"]
    ELSE LET e == lexScan(l.input, l.pos + 1, AlphaNumericOrHyphen \cup {"."}, FALSE)
         IN  [lexEmit([l EXCEPT !.pos = e], "tScParam") EXCEPT
                  !.paramElements = IF @ = 0 THEN 1 ELSE @,
                  !.state = "lexInsideShortcode"]

lexStep(l) ==
    CASE l.state = "lexMainSection" -> lexMainSection(l)
      [] l.state = "lexShortcodeLeftDelim" -> lexShortcodeLeftDelim(l)
      [] l.state = "lexShortcodeRightDelim" -> lexShortcodeRightDelim(l)
      [] l.state = "lexInsideShortcode" -> lexInsideShortcode(l)
      [] l.state = "lexIdentifierInShortcode" -> lexIdentifierInShortcode(l)
      [] l.state = "lexEndOfShortcode" -> lexEndOfShortcode(l)
      [] l.state = "lexShortcodeParam" -> lexShortcodeParam(l)
      [] l.state = "lexShortcodeQuotedParamVal" -> lexShortcodeQuotedParamVal(l)

RECURSIVE lexRun(_)
lexRun(l) == IF l.state = "stop" THEN l ELSE lexRun(lexStep(l))

\* pageparser.ParseMain(input, Config{}): the items, ending in tEOF or tError.
ParseMain(input) ==
    lexRun([input |-> input, pos |-> 0, start |-> 0, items |-> << >>,
            state |-> "lexMainSection", style |-> "NoMarkup",
            currShortcodeName |-> << >>, closingState |-> 0,
            openShortcodes |-> {}, elementStepNum |-> 0,
            paramElements |-> 0]).items

(* ------------------------ internal/tomarkdoc ---------------------------- *)

\* item.IsEOF() || item.IsDone(): the iteration stops at this item.
itemEnds(item) == item.Type \in {"tEOF", "tError"}

RECURSIVE itemsBeforeEnd(_)
\* The items it.Next() returns before the loop breaks.
itemsBeforeEnd(items) ==
    IF items = << >> \/ itemEnds(Head(items)) THEN << >>
    ELSE <<Head(items)>> \o itemsBeforeEnd(Tail(items))

\* mkTok taking the token's start from the lexer's position after the item.
mkTokStartAtPos(item, src) ==
    LET val == Slice(src, item.low, item.high)
    IN  [Typ |-> item.Type, Val |-> val, Start |-> item.high,
         End |-> item.high + Len(val)]

\* One Tok of tokenizeShortcodes: Start is item.Pos(), Val is item.Val(src)
\* and End is Start + len(Val).
mkTok(item, src) ==
    LET val == Slice(src, item.low, item.high)
    IN  [Typ |-> item.Type, Val |-> val, Start |-> item.low,
         End |-> item.low + Len(val)]

tokenizeShortcodes(b) ==
    LET items == itemsBeforeEnd(ParseMain(b))
    IN  [k \in 1..Len(items) |-> mkTok(items[k], b)]

isLeftDelim(typ) == typ \in {"tLeftDelimScNoMarkup", "tLeftDelimScWithMarkup"}

isRightDelim(typ) == typ \in {"tRightDelimScNoMarkup", "tRightDelimScWithMarkup"}

RECURSIVE nextRightDelim(_, _)
\* getInterior's scan: the first index >= j holding a right delimiter,
\* len(toks) if there is none.
nextRightDelim(tk, j) ==
    IF j < Len(tk) /\ ~isRightDelim(At(tk, j).Typ) THEN nextRightDelim(tk, j + 1) ELSE j

\* getInterior taking the name from the trimmed interior as it stands,
\* without stripping a leading "/".
getInteriorNoStrip(tk, b, leftIdx) ==
    LET j == nextRightDelim(tk, leftIdx + 1)
    IN  IF j >= Len(tk)
        THEN [interior |-> << >>, name |-> << >>, rightIdx |-> leftIdx]
        ELSE LET trimmed == TrimSpace(Slice(b, At(tk, leftIdx).End, At(tk, j).Start))
             IN  [interior |-> trimmed, name |-> FirstField(trimmed), rightIdx |-> j]

RECURSIVE lastRightDelim(_, _)
\* The last index >= j holding a right delimiter, len(toks) if there is none.
lastRightDelim(tk, j) ==
    IF j >= Len(tk) THEN Len(tk)
    ELSE LET later == lastRightDelim(tk, j + 1)
         IN  IF later < Len(tk) THEN later
             ELSE IF isRightDelim(At(tk, j).Typ) THEN j ELSE Len(tk)

\* getInterior reading up to the last right delimiter of the stream instead
\* of the next one.
getInteriorLastRight(tk, b, leftIdx) ==
    LET j == lastRightDelim(tk, leftIdx + 1)
    IN  IF j >= Len(tk)
        THEN [interior |-> << >>, name |-> << >>, rightIdx |-> leftIdx]
        ELSE LET inner == Slice(b, At(tk, leftIdx).End, At(tk, j).Start)
                 trimmed == TrimSpace(inner)
                 n == IF HasPrefix(trimmed, <<"/">>)
                      THEN TrimSpace(Tail(trimmed)) ELSE trimmed
             IN  [interior |-> trimmed, name |-> FirstField(n), rightIdx |-> j]

getInterior(tk, b, leftIdx) ==
    LET j == nextRightDelim(tk, leftIdx + 1)
    IN  IF j >= Len(tk)
        THEN [interior |-> << >>, name |-> << >>, rightIdx |-> leftIdx]
        ELSE LET inner == Slice(b, At(tk, leftIdx).End, At(tk, j).Start)
                 trimmed == TrimSpace(inner)
                 n == IF HasPrefix(trimmed, <<"/">>)
                      THEN TrimSpace(Tail(trimmed)) ELSE trimmed
             IN  [interior |-> trimmed, name |-> FirstField(n), rightIdx |-> j]

\* The test both hasMatchingClose and renderToMdoc use for a closing tag.
nextIsScClose(tk, k) == k + 1 < Len(tk) /\ At(tk, k + 1).Typ = "tScClose"

RECURSIVE hasMatchingCloseLoop(_, _, _, _, _)
\* The loop of hasMatchingClose, entered with index k and the depth so far.
hasMatchingCloseLoop(tk, b, k, depth, name) ==
    IF k >= Len(tk) THEN FALSE
    ELSE IF ~isLeftDelim(At(tk, k).Typ)
    THEN hasMatchingCloseLoop(tk, b, k + 1, depth, name)
    ELSE LET g == getInterior(tk, b, k)
         IN  IF nextIsScClose(tk, k)
             THEN IF g.name = name
                  THEN IF depth = 0 THEN TRUE
                       ELSE hasMatchingCloseLoop(tk, b, g.rightIdx + 1, depth - 1, name)
                  ELSE hasMatchingCloseLoop(tk, b, g.rightIdx + 1, depth, name)
             ELSE hasMatchingCloseLoop(tk, b, g.rightIdx + 1,
                                       IF g.name = name THEN depth + 1 ELSE depth, name)

RECURSIVE hasMatchingCloseLoopNoRaise(_, _, _, _, _)
\* The loop of hasMatchingClose with a depth that a nested opening tag of the
\* name does not raise.
hasMatchingCloseLoopNoRaise(tk, b, k, depth, name) ==
    IF k >= Len(tk) THEN FALSE
    ELSE IF ~isLeftDelim(At(tk, k).Typ)
    THEN hasMatchingCloseLoopNoRaise(tk, b, k + 1, depth, name)
    ELSE LET g == getInterior(tk, b, k)
         IN  IF nextIsScClose(tk, k)
             THEN IF g.name = name
                  THEN IF depth = 0 THEN TRUE
                       ELSE hasMatchingCloseLoopNoRaise(tk, b, g.rightIdx + 1, depth - 1, name)
                  ELSE hasMatchingCloseLoopNoRaise(tk, b, g.rightIdx + 1, depth, name)
             ELSE hasMatchingCloseLoopNoRaise(tk, b, g.rightIdx + 1, depth, name)

hasMatchingCloseNoRaise(tk, b, fromRightIdx, name) ==
    hasMatchingCloseLoopNoRaise(tk, b, fromRightIdx + 1, 0, name)

\* The delimiter style of a delimiter token type.
styleOf(typ) ==
    IF typ \in {"tLeftDelimScWithMarkup", "tRightDelimScWithMarkup"} THEN "%" ELSE "<"

RECURSIVE hasMatchingCloseLoopSameStyle(_, _, _, _, _, _)
\* The loop of hasMatchingClose looking only at the left delimiters of one
\* style.
hasMatchingCloseLoopSameStyle(tk, b, k, depth, name, style) ==
    IF k >= Len(tk) THEN FALSE
    ELSE IF ~(isLeftDelim(At(tk, k).Typ) /\ styleOf(At(tk, k).Typ) = style)
    THEN hasMatchingCloseLoopSameStyle(tk, b, k + 1, depth, name, style)
    ELSE LET g == getInterior(tk, b, k)
         IN  IF nextIsScClose(tk, k)
             THEN IF g.name = name
                  THEN IF depth = 0 THEN TRUE
                       ELSE hasMatchingCloseLoopSameStyle(tk, b, g.rightIdx + 1, depth - 1,
                                                          name, style)
                  ELSE hasMatchingCloseLoopSameStyle(tk, b, g.rightIdx + 1, depth, name, style)
             ELSE hasMatchingCloseLoopSameStyle(tk, b, g.rightIdx + 1,
                                                IF g.name = name THEN depth + 1 ELSE depth,
                                                name, style)

\* hasMatchingClose pairing only within the style of the opening tag's right
\* delimiter.
hasMatchingCloseSameStyle(tk, b, fromRightIdx, name) ==
    hasMatchingCloseLoopSameStyle(tk, b, fromRightIdx + 1, 0, name,
                                  styleOf(At(tk, fromRightIdx).Typ))

\* hasMatchingClose without its depth counter: any later closing tag of the
\* name counts.
hasMatchingCloseNoDepth(tk, b, fromRightIdx, name) ==
    \E k \in (fromRightIdx + 1)..(Len(tk) - 1) :
        /\ isLeftDelim(At(tk, k).Typ)
        /\ nextIsScClose(tk, k)
        /\ getInterior(tk, b, k).name = name

RECURSIVE hasMatchingCloseLoopAllNames(_, _, _, _, _)
\* The loop of hasMatchingClose with one depth counter for the tags of every
\* name.
hasMatchingCloseLoopAllNames(tk, b, k, depth, name) ==
    IF k >= Len(tk) THEN FALSE
    ELSE IF ~isLeftDelim(At(tk, k).Typ)
    THEN hasMatchingCloseLoopAllNames(tk, b, k + 1, depth, name)
    ELSE LET g == getInterior(tk, b, k)
         IN  IF nextIsScClose(tk, k)
             THEN IF g.name = name /\ depth = 0 THEN TRUE
                  ELSE hasMatchingCloseLoopAllNames(tk, b, g.rightIdx + 1,
                                                    IF depth > 0 THEN depth - 1 ELSE 0, name)
             ELSE hasMatchingCloseLoopAllNames(tk, b, g.rightIdx + 1, depth + 1, name)

hasMatchingCloseAllNames(tk, b, fromRightIdx, name) ==
    hasMatchingCloseLoopAllNames(tk, b, fromRightIdx + 1, 0, name)

hasMatchingClose(tk, b, fromRightIdx, name) ==
    hasMatchingCloseLoop(tk, b, fromRightIdx + 1, 0, name)

\* writeClosingShortcode writing the interior as it stands in the buffer
\* instead of rebuilding it from the name.
closingTextFromInterior(tk, b, k) ==
    <<"{", "%", " ">> \o getInterior(tk, b, k).interior \o <<" ", "%", "}">>

\* What writeClosingShortcode writes for the left delimiter at k.
closingText(tk, b, k) ==
    LET g == getInterior(tk, b, k)
    IN  IF g.name = << >> THEN <<"{", "%", " ", "/", " ", "%", "}">>
        ELSE <<"{", "%", " ", "/">> \o g.name \o <<" ", "%", "}">>

\* writeOpeningShortcode without its test for an empty name: the classifier
\* decides for every tag.
openingTextNoNameCheck(tk, b, k) ==
    LET g == getInterior(tk, b, k)
        trimmed == TrimSpace(g.interior)
    IN  IF hasMatchingClose(tk, b, g.rightIdx, g.name)
        THEN <<"{", "%", " ">> \o trimmed \o <<" ", "%", "}">>
        ELSE <<"{", "%", " ">> \o trimmed \o <<" ", "/", "%", "}">>

\* writeOpeningShortcode without its standalone branch: every named tag is
\* written in the paired form.
openingTextAlwaysPaired(tk, b, k) ==
    <<"{", "%", " ">> \o TrimSpace(getInterior(tk, b, k).interior) \o <<" ", "%", "}">>

\* writeOpeningShortcode without its paired branch: every named tag is
\* written self-closing.
openingTextAlwaysStandalone(tk, b, k) ==
    LET g == getInterior(tk, b, k)
    IN  <<"{", "%", " ">> \o TrimSpace(g.interior) \o
        (IF g.name = << >> THEN <<" ", "%", "}">> ELSE <<" ", "/", "%", "}">>)

\* What writeOpeningShortcode writes for the left delimiter at k.
openingText(tk, b, k) ==
    LET g == getInterior(tk, b, k)
        trimmed == TrimSpace(g.interior)
    IN  IF g.name = << >> THEN <<"{", "%", " ">> \o trimmed \o <<" ", "%", "}">>
        ELSE IF hasMatchingClose(tk, b, g.rightIdx, g.name)
        THEN <<"{", "%", " ">> \o trimmed \o <<" ", "%", "}">>
        ELSE <<"{", "%", " ">> \o trimmed \o <<" ", "/", "%", "}">>

(* -------------------------- internal/piglatin --------------------------- *)

\* The second byte of a two-byte character: "C3" "A9" is U+00E9 and
\* "C3" "89" its upper case U+00C9.
ContinuationBytes == {"A9", "89"}

\* unicode.IsLetter on the bytes of the model (both bytes of U+00E9 and of
\* U+00C9 belong to a letter).
IsLetterByte(c) ==
    c \in Range(LowerLetters) \cup Range(UpperLetters) \cup {"C3"} \cup ContinuationBytes

\* unicode.IsUpper(runes[0]) of a non-empty word.
IsUpperFirst(word) ==
    \/ word[1] \in Range(UpperLetters)
    \/ word[1] = "C3" /\ Len(word) >= 2 /\ word[2] = "89"

LetterIndex(letters, c) == CHOOSE k \in 1..Len(letters) : letters[k] = c

ToLowerByte(c) ==
    IF c \in Range(UpperLetters) THEN LowerLetters[LetterIndex(UpperLetters, c)]
    ELSE IF c = "89" THEN "A9" ELSE c

ToUpperByte(c) ==
    IF c \in Range(LowerLetters) THEN UpperLetters[LetterIndex(LowerLetters, c)]
    ELSE IF c = "A9" THEN "89" ELSE c

\* strings.ToLower
ToLower(s) == [k \in 1..Len(s) |-> ToLowerByte(s[k])]

\* strings.ToUpper
ToUpper(s) == [k \in 1..Len(s) |-> ToUpperByte(s[k])]

\* strings.Title of one word of letters: its first letter in upper case.
Title(s) == IF s = << >> THEN s ELSE <<ToUpperByte(s[1])>> \o Tail(s)

Vowels == {"a", "e", "i", "o", "u"}

RECURSIVE firstVowel(_, _)
\* pigWord's loop: the first offset >= k of a vowel byte, len(s) if none.
firstVowel(s, k) ==
    IF k < Len(s) /\ At(s, k) \notin Vowels THEN firstVowel(s, k + 1) ELSE k

\* pigWord without its strings.Title calls: the result stays in lower case.
pigWordNoTitle(word) ==
    IF word = << >> THEN << >>
    ELSE LET lowerWord == ToLower(word)
             k == firstVowel(lowerWord, 0)
         IN  IF lowerWord[1] \in Vowels THEN lowerWord \o <<"w", "a", "y">>
             ELSE IF k = Len(lowerWord) THEN lowerWord \o <<"a", "y">>
             ELSE Slice(lowerWord, k, Len(lowerWord)) \o Slice(lowerWord, 0, k) \o <<"a", "y">>

pigWord(word) ==
    IF word = << >> THEN << >>
    ELSE LET isUpper == IsUpperFirst(word)
             lowerWord == ToLower(word)
             k == firstVowel(lowerWord, 0)
         IN  IF lowerWord[1] \in Vowels
             THEN LET res == lowerWord \o <<"w", "a", "y">>
                  IN  IF isUpper THEN Title(res) ELSE res
             ELSE IF k = Len(lowerWord) THEN lowerWord \o <<"a", "y">>
             ELSE LET res == Slice(lowerWord, k, Len(lowerWord))
                                 \o Slice(lowerWord, 0, k) \o <<"a", "y">>
                  IN  IF isUpper THEN Title(res) ELSE res

RECURSIVE TakeLetters(_)
TakeLetters(s) ==
    IF s = << >> \/ ~IsLetterByte(Head(s)) THEN << >>
    ELSE <<Head(s)>> \o TakeLetters(Tail(s))

RECURSIVE FieldsLetters(_)
\* strings.FieldsFunc(s, !unicode.IsLetter): the maximal runs of letters.
FieldsLetters(s) ==
    IF s = << >> THEN << >>
    ELSE IF ~IsLetterByte(Head(s)) THEN FieldsLetters(Tail(s))
    ELSE LET w == TakeLetters(s)
         IN  <<w>> \o FieldsLetters(SubSeq(s, Len(w) + 1, Len(s)))

\* strings.Index(s, w), -1 when w does not occur in s.
Index(s, w) ==
    LET at == {k \in 0..(Len(s) - Len(w)) : Slice(s, k, k + Len(w)) = w}
    IN  IF at = {} THEN -1 ELSE CHOOSE k \in at : \A q \in at : k <= q

RECURSIVE pigLoop(_, _, _, _)
\* ToPigLatin's loop over the words, and the trailing rest after it.
pigLoop(s, words, start, result) ==
    IF words = << >>
    THEN IF start < Len(s) THEN result \o Slice(s, start, Len(s)) ELSE result
    ELSE LET w == Head(words)
             idx == Index(Slice(s, start, Len(s)), w)
         IN  IF idx >= 0
             THEN pigLoop(s, Tail(words), start + idx + Len(w),
                          result \o Slice(s, start, start + idx) \o pigWord(w))
             ELSE pigLoop(s, Tail(words), start, result)

ToPigLatin(s) == pigLoop(s, FieldsLetters(s), 0, << >>)

(* ---------------------- translateBodyUsingRanges ------------------------ *)

RECURSIVE utf8Valid(_)
\* utf8.Valid on the bytes of the model: "C3" leads a two-byte character
\* and a continuation byte ends it.
utf8Valid(s) ==
    IF s = << >> THEN TRUE
    ELSE IF Head(s) = "C3"
         THEN Len(s) >= 2 /\ s[2] \in ContinuationBytes /\ utf8Valid(SubSeq(s, 3, Len(s)))
    ELSE IF Head(s) \in ContinuationBytes THEN FALSE
    ELSE utf8Valid(Tail(s))

\* The transformers translateBodyUsingRanges calls: piglatin.ToPigLatin in
\* one version of main.go (it lengthens every word), strings.ToUpper in the
\* other (it keeps the length).
CodeTransformers == {"piglatin", "upper"}

\* Two more transformers of the text -> text signature, for the properties
\* stated for any transformer: the identity and one that shortens (it erases
\* the fragment).
OtherTransformers == {"identity", "erase"}

Transformers == CodeTransformers \cup OtherTransformers

\* The identity transformer.
identity(original) == original

\* The transformer that erases its fragment.
erase(original) == << >>

\* translated := transform(original)
Apply(t, original) ==
    CASE t = "piglatin" -> ToPigLatin(original)
      [] t = "upper" -> ToUpper(original)
      [] t = "identity" -> identity(original)
      [] t = "erase" -> erase(original)

\* The first pair of defensive checks: the span is a range of the buffer.
spanInRange(b, span) ==
    ~(span.Start < 0 \/ span.End < 0 \/ span.Start > span.End \/ span.End > Len(b))

\* The splice that keeps the replaced fragment in the suffix
\* (after := body[span.Start:]).
splicedKeepsFragment(b, span, t) ==
    Slice(b, 0, span.Start) \o Apply(t, Slice(b, span.Start, span.End))
        \o Slice(b, span.Start, Len(b))

\* The splice that starts the suffix one byte late (after := body[span.End+1:]).
splicedSuffixLate(b, span, t) ==
    Slice(b, 0, span.Start) \o Apply(t, Slice(b, span.Start, span.End))
        \o Slice(b, span.End + 1, Len(b))

\* before + translated + after
spliced(b, span, t) ==
    Slice(b, 0, span.Start) \o Apply(t, Slice(b, span.Start, span.End))
        \o Slice(b, span.End, Len(b))

(* ------------------------------ documents ------------------------------- *)

\* The pieces documents are built from: text, an opening tag with a quoted
\* parameter and inner white space, a closing tag with odd white space, a
\* tight opening and closing tag of another name in the other style, an
\* opening tag of the first name in the other style, a tag with no name, an
\* opening delimiter with a name and no closing delimiter, and the bytes of a
\* closing delimiter after a blank (text, unless a tag is open before them).
PieceText == <<"x">>

PieceRight == <<" ", ">", "}", "}">>

PieceOpenA == <<"{","{","<"," ","a"," ","\"","q","\""," ",">","}","}">>

PieceCloseA == <<"{","{","<"," "," ","/"," ","a"," ",">","}","}">>

PieceOpenB == <<"{","{","%","b","%","}","}">>

PieceCloseB == <<"{","{","%"," ","/"," ","b"," ","%","}","}">>

PieceOpenA2 == <<"{","{","%"," ","a"," ","%","}","}">>

PieceNoName == <<"{","{","<"," ",">","}","}">>

PieceUnterminated == <<"{","{","<"," ","a"," ">>

DocPieces ==
    {PieceText, PieceRight, PieceOpenA, PieceCloseA, PieceOpenB, PieceCloseB,
     PieceOpenA2, PieceNoName, PieceUnterminated}

\* The sequences of at most n pieces.
PieceSeqs(n) == UNION {[1..m -> DocPieces] : m \in 0..n}

\* Longer documents with the nestings of the package's tests: two
\* interleaved pairs, a pair nested in a pair of another name, a pair nested
\* in a pair of its own name, and two pairs in a row inside a pair of another
\* name (the tabs of TestConvertBodyToMdocTokens_ComplexGolden).
ScenarioDocs ==
    {Concat(<<PieceOpenA, PieceOpenB, PieceCloseA, PieceCloseB>>),
     Concat(<<PieceOpenB, PieceOpenA, PieceCloseA, PieceCloseB>>),
     Concat(<<PieceOpenA, PieceOpenA, PieceCloseA, PieceCloseA>>),
     Concat(<<PieceOpenB, PieceOpenA, PieceText, PieceCloseA,
              PieceOpenA, PieceText, PieceCloseA, PieceCloseB>>)}

\* Documents in which a tag of one style is followed by the bytes of the
\* other style's right delimiter.
PieceCrossA == <<"{","{","<"," ","a"," ","%","}","}">>

PieceCrossB == <<"{","{","%"," ","b"," ",">","}","}">>

CrossStyleDocs ==
    {Concat(<<pre, cross, post>>) :
        pre \in {<< >>, PieceOpenA \o PieceOpenB},
        cross \in {PieceCrossA, PieceCrossB},
        post \in {<< >>, PieceRight, PieceOpenB}}

Docs == {Concat(ps) : ps \in PieceSeqs(MaxPieces)} \cup ScenarioDocs \cup CrossStyleDocs

(* ---------------------------- state machine ----------------------------- *)

VARIABLES
    body,   \* the document body handed to ConvertBodyToMdocTokens
    toks,   \* its tokens, once tokenizeShortcodes has run
    pc,     \* where the call stands
    i,      \* renderToMdoc's walk index
    out,    \* renderToMdoc's strings.Builder
    log,    \* what each iteration of the walk wrote: [idx, text]
    spans,  \* in.ContentTextSpans of translateBodyUsingRanges
    transform,  \* the transformer translateBodyUsingRanges applies
    calls       \* the locals of each of several ConvertBodyToMdocTokens calls

vars == <<body, toks, pc, i, out, log, spans, transform, calls>>

Init ==
    /\ body \in Docs
    /\ spans = << >>
    /\ transform = "piglatin"
    /\ calls = << >>
    /\ toks = << >>
    /\ pc = "tokenize"
    /\ i = 0
    /\ out = << >>
    /\ log = << >>

\* toks := tokenizeShortcodes(body)
Tokenize ==
    /\ pc = "tokenize"
    /\ toks' = tokenizeShortcodes(body)
    /\ pc' = "render"
    /\ UNCHANGED <<body, i, out, log, spans, transform, calls>>

\* One iteration of the walk writes text and leaves the index at next - 1.
walk(text, next) ==
    /\ out' = out \o text
    /\ log' = Append(log, [idx |-> i, text |-> text])
    /\ i' = next
    /\ UNCHANGED <<body, toks, pc, spans, transform, calls>>

\* The tText case writing the text without its outer white space.
RenderTextTrimmed ==
    /\ pc = "render" /\ i < Len(toks)
    /\ At(toks, i).Typ = "tText"
    /\ walk(TrimSpace(At(toks, i).Val), i + 1)

RenderText ==
    /\ pc = "render" /\ i < Len(toks)
    /\ At(toks, i).Typ = "tText"
    /\ walk(At(toks, i).Val, i + 1)

RenderClosing ==
    /\ pc = "render" /\ i < Len(toks)
    /\ isLeftDelim(At(toks, i).Typ)
    /\ nextIsScClose(toks, i)
    /\ walk(closingText(toks, body, i), getInterior(toks, body, i).rightIdx + 1)

\* The opening case moving the walk to the token after the left delimiter
\* instead of the one after the resolved right delimiter.
RenderOpeningStepsOne ==
    /\ pc = "render" /\ i < Len(toks)
    /\ isLeftDelim(At(toks, i).Typ)
    /\ ~nextIsScClose(toks, i)
    /\ walk(openingText(toks, body, i), i + 1)

\* The opening case leaving the walk index on the resolved index without the
\* loop's increment.
RenderOpeningNoAdvance ==
    /\ pc = "render" /\ i < Len(toks)
    /\ isLeftDelim(At(toks, i).Typ)
    /\ ~nextIsScClose(toks, i)
    /\ walk(openingText(toks, body, i), getInterior(toks, body, i).rightIdx)

RenderOpening ==
    /\ pc = "render" /\ i < Len(toks)
    /\ isLeftDelim(At(toks, i).Typ)
    /\ ~nextIsScClose(toks, i)
    /\ walk(openingText(toks, body, i), getInterior(toks, body, i).rightIdx + 1)

\* The right-delimiter case copying the token's bytes as the fallback does.
RenderStrayRightCopies ==
    /\ pc = "render" /\ i < Len(toks)
    /\ isRightDelim(At(toks, i).Typ)
    /\ walk(At(toks, i).Val, i + 1)

RenderStrayRight ==
    /\ pc = "render" /\ i < Len(toks)
    /\ isRightDelim(At(toks, i).Typ)
    /\ walk(<< >>, i + 1)

RenderFallback ==
    /\ pc = "render" /\ i < Len(toks)
    /\ At(toks, i).Typ # "tText"
    /\ ~isLeftDelim(At(toks, i).Typ)
    /\ ~isRightDelim(At(toks, i).Typ)
    /\ walk(At(toks, i).Val, i + 1)

RenderReturn ==
    /\ pc = "render" /\ i >= Len(toks)
    /\ pc' = "done"
    /\ UNCHANGED <<body, toks, i, out, log, spans, transform, calls>>

\* ConvertBodyToMdocTokens on a document: the lexer never leaves a right
\* delimiter for the walk to reach (NoStrayRightDelim), so RenderStrayRight
\* is no step of this specification.
Next ==
    \/ Tokenize
    \/ RenderText
    \/ RenderClosing
    \/ RenderOpening
    \/ RenderFallback
    \/ RenderReturn

Spec == Init /\ [][Next]_vars

(* -------------------- renderToMdoc on any token stream ------------------ *)

\* The kinds of token a stream is made of: type, bytes, and the bytes the
\* buffer holds before the token without belonging to it.
TokKinds ==
    {[Typ |-> "tText", Val |-> <<"x">>, gap |-> << >>],
     [Typ |-> "tLeftDelimScNoMarkup", Val |-> <<"{", "{", "<">>, gap |-> << >>],
     [Typ |-> "tLeftDelimScWithMarkup", Val |-> <<"{", "{", "%">>, gap |-> << >>],
     [Typ |-> "tRightDelimScNoMarkup", Val |-> <<">", "}", "}">>, gap |-> <<" ">>],
     [Typ |-> "tRightDelimScWithMarkup", Val |-> <<"%", "}", "}">>, gap |-> << >>],
     [Typ |-> "tScClose", Val |-> <<"/">>, gap |-> <<" ">>],
     [Typ |-> "tScName", Val |-> <<"a">>, gap |-> <<" ">>],
     [Typ |-> "tScName", Val |-> <<"b">>, gap |-> << >>]}

\* The streams of at most n kinds.
KindSeqs(n) == UNION {[1..m -> TokKinds] : m \in 0..n}

RECURSIVE StreamBody(_)
\* The buffer a stream of kinds stands for.
StreamBody(ks) ==
    IF ks = << >> THEN << >>
    ELSE Head(ks).gap \o Head(ks).Val \o StreamBody(Tail(ks))

RECURSIVE StreamToks(_, _)
\* The Toks of a stream of kinds whose buffer starts at offset pos.
StreamToks(ks, pos) ==
    IF ks = << >> THEN << >>
    ELSE LET k == Head(ks)
             start == pos + Len(k.gap)
         IN  <<[Typ |-> k.Typ, Val |-> k.Val, Start |-> start, End |-> start + Len(k.Val)]>>
                 \o StreamToks(Tail(ks), start + Len(k.Val))

\* Before renderToMdoc is called.
InitTok ==
    /\ toks = << >>
    /\ body = << >>
    /\ spans = << >>
    /\ transform = "piglatin"
    /\ calls = << >>
    /\ pc = "call"
    /\ i = 0
    /\ out = << >>
    /\ log = << >>

\* renderToMdoc(toks, body) entered with any stream and its buffer.
RenderCall ==
    /\ pc = "call"
    /\ \E ks \in KindSeqs(MaxToks) :
          /\ toks' = StreamToks(ks, 0)
          /\ body' = StreamBody(ks)
    /\ pc' = "render"
    /\ UNCHANGED <<i, out, log, spans, transform, calls>>

NextTok ==
    \/ RenderCall
    \/ RenderText
    \/ RenderClosing
    \/ RenderOpening
    \/ RenderStrayRight
    \/ RenderFallback
    \/ RenderReturn

SpecTok == InitTok /\ [][NextTok]_vars

\* The steps of renderToMdoc's loop and its return.
RenderLoop ==
    \/ RenderText
    \/ RenderClosing
    \/ RenderOpening
    \/ RenderStrayRight
    \/ RenderFallback
    \/ RenderReturn

\* Once called, renderToMdoc keeps running: nothing but its own loop decides
\* whether it takes its next step. This is WF_vars(RenderLoop), written with
\* what its parts amount to here: the loop has a step exactly while
\* pc = "render", and the steps taken from such a state are the loop's.
SpecTokLive == SpecTok /\ ([]<>(pc # "render") \/ []<><<pc = "render">>_vars)

(* ---------------- renderToMdoc on streams of whole tags ----------------- *)

\* The kind of TokKinds with a type and a value.
Kind(typ, val) == CHOOSE k \in TokKinds : k.Typ = typ /\ k.Val = val

\* What a stream handed to renderToMdoc is made of: text, opening and closing
\* tags of two names in both delimiter styles, a tag without its right
\* delimiter, a right delimiter without its tag.
TagUnits ==
    LET text == Kind("tText", <<"x">>)
        ltNo == Kind("tLeftDelimScNoMarkup", <<"{", "{", "<">>)
        ltWith == Kind("tLeftDelimScWithMarkup", <<"{", "{", "%">>)
        rtNo == Kind("tRightDelimScNoMarkup", <<">", "}", "}">>)
        rtWith == Kind("tRightDelimScWithMarkup", <<"%", "}", "}">>)
        close == Kind("tScClose", <<"/">>)
        a == Kind("tScName", <<"a">>)
        b == Kind("tScName", <<"b">>)
    IN  {<<text>>,
         <<ltNo, a, rtNo>>, <<ltWith, a, rtWith>>,
         <<ltNo, close, a, rtNo>>, <<ltWith, close, a, rtWith>>,
         <<ltNo, b, rtNo>>, <<ltNo, close, b, rtNo>>,
         <<ltNo, a>>, <<rtNo>>}

\* The streams of at most n units.
TagStreams(n) == {Concat(us) : us \in UNION {[1..m -> TagUnits] : m \in 0..n}}

\* renderToMdoc(toks, body) entered with a stream of whole tags and its buffer.
RenderTagsCall ==
    /\ pc = "call"
    /\ \E ks \in TagStreams(MaxTags) :
          /\ toks' = StreamToks(ks, 0)
          /\ body' = StreamBody(ks)
    /\ pc' = "render"
    /\ UNCHANGED <<i, out, log, spans, transform, calls>>

NextTags ==
    \/ RenderTagsCall
    \/ RenderText
    \/ RenderClosing
    \/ RenderOpening
    \/ RenderStrayRight
    \/ RenderFallback
    \/ RenderReturn

SpecTags == InitTok /\ [][NextTags]_vars

\* The index hasMatchingClose's loop moves to after its iteration at index k.
scanNext(tk, b, k) ==
    IF isLeftDelim(At(tk, k).Typ) THEN getInterior(tk, b, k).rightIdx + 1 ELSE k + 1

(* --------------- several ConvertBodyToMdocTokens calls ------------------ *)

\* The number of calls running at the same time.
NumCalls == 2

\* The bodies the calls convert: a pair around text, a tag alone, an
\* unterminated tag after text, and a closing tag of a pair opened in the
\* other style.
ConcurrentDocs ==
    {PieceOpenA \o PieceText \o PieceCloseA,
     PieceOpenB,
     PieceText \o PieceUnterminated,
     PieceOpenA2 \o PieceCloseA}

\* The locals of a call that has just been entered: body, toks, the walk
\* index i and the strings.Builder out.
enterCall(b) == [body |-> b, toks |-> << >>, pc |-> "tokenize", i |-> 0, out |-> << >>]

\* What one iteration of renderToMdoc's loop writes at index c.i.
iterationText(c) ==
    LET t == At(c.toks, c.i)
    IN  IF t.Typ = "tText" THEN t.Val
        ELSE IF isLeftDelim(t.Typ)
        THEN IF nextIsScClose(c.toks, c.i) THEN closingText(c.toks, c.body, c.i)
             ELSE openingText(c.toks, c.body, c.i)
        ELSE IF isRightDelim(t.Typ) THEN << >>
        ELSE t.Val

\* The walk index after the iteration at index c.i.
iterationNext(c) ==
    IF isLeftDelim(At(c.toks, c.i).Typ)
    THEN getInterior(c.toks, c.body, c.i).rightIdx + 1
    ELSE c.i + 1

\* The next step of one call, on its own locals: tokenizeShortcodes, one
\* iteration of renderToMdoc's loop, or its return.
stepCall(c) ==
    IF c.pc = "tokenize"
    THEN [c EXCEPT !.toks = tokenizeShortcodes(c.body), !.pc = "render"]
    ELSE IF c.i >= Len(c.toks) THEN [c EXCEPT !.pc = "done"]
    ELSE [c EXCEPT !.out = c.out \o iterationText(c), !.i = iterationNext(c)]

RECURSIVE runCall(_)
\* A call run alone, from where it stands to its return.
runCall(c) == IF c.pc = "done" THEN c ELSE runCall(stepCall(c))

\* Every call is entered with a body of its own.
InitCalls ==
    /\ calls \in [1..NumCalls -> {enterCall(b) : b \in ConcurrentDocs}]
    /\ body = << >>
    /\ toks = << >>
    /\ pc = "calls"
    /\ i = 0
    /\ out = << >>
    /\ log = << >>
    /\ spans = << >>
    /\ transform = "piglatin"

\* A step of call p with the walk index kept in one variable of the package
\* for all calls.
CallStepSharedIndex(p) ==
    /\ pc = "calls" /\ calls[p].pc # "done"
    /\ calls' = [q \in 1..NumCalls |->
                    IF q = p THEN stepCall(calls[p])
                    ELSE [calls[q] EXCEPT !.i = stepCall(calls[p]).i]]
    /\ UNCHANGED <<body, toks, pc, i, out, log, spans, transform>>

\* A step of call p: it reads and writes its own locals only.
CallStep(p) ==
    /\ pc = "calls" /\ calls[p].pc # "done"
    /\ calls' = [calls EXCEPT ![p] = stepCall(calls[p])]
    /\ UNCHANGED <<body, toks, pc, i, out, log, spans, transform>>

NextCalls == \E p \in 1..NumCalls : CallStep(p)

\* Several calls of ConvertBodyToMdocTokens, their steps interleaved in any
\* order.
SpecCalls == InitCalls /\ [][NextCalls]_vars

(* ------------------------------ pigWord --------------------------------- *)

\* The letters of the words handed to pigWord: vowels and consonants in both
\* cases.
PigLetters == {"a", "i", "b", "c", "A", "B"}

PigWords == UNION {[1..m -> PigLetters] : m \in 0..MaxWord}

\* Before pigWord(word) is called: body is the word.
InitPig ==
    /\ body \in PigWords
    /\ toks = << >>
    /\ pc = "pigWord"
    /\ i = 0
    /\ out = << >>
    /\ log = << >>
    /\ spans = << >>
    /\ transform = "piglatin"
    /\ calls = << >>

\* out := pigWord(word)
PigWordCall ==
    /\ pc = "pigWord"
    /\ out' = pigWord(body)
    /\ pc' = "pigged"
    /\ UNCHANGED <<body, toks, i, log, spans, transform, calls>>

NextPig == PigWordCall

SpecPig == InitPig /\ [][NextPig]_vars

(* ------------------ translateBodyUsingRanges: inputs -------------------- *)

\* in.ContentRaw: "b a" and, with a two-byte character, U+00E9 " a" (valid
\* UTF-8, as json.Unmarshal delivers it).
SpliceBodies == {<<"b", " ", "a">>, <<"C3", "A9", " ", "a">>}

\* in.ContentTextSpans: any list of at most MaxSpans spans with offsets from
\* 0 to one past the end of the buffer, valid or not, in any order.
SpanLists(b) ==
    LET sp == [Start : 0..(Len(b) + 1), End : 0..(Len(b) + 1)]
    IN  UNION {[1..m -> sp] : m \in 0..MaxSpans}

\* body := []byte(in.ContentRaw), and the loop starts at the last span.
SpliceInit ==
    /\ body \in SpliceBodies
    /\ spans \in SpanLists(body)
    /\ transform \in Transformers
    /\ calls = << >>
    /\ toks = << >>
    /\ pc = "splice"
    /\ i = Len(spans) - 1
    /\ out = body
    /\ log = << >>

\* The iteration taking the spans from the front of the list: the k-th
\* iteration splices the k-th span listed.
SpliceStepFrontFirst ==
    /\ pc = "splice" /\ i >= 0
    /\ spanInRange(out, At(spans, Len(spans) - 1 - i))
    /\ utf8Valid(Slice(out, At(spans, Len(spans) - 1 - i).Start,
                       At(spans, Len(spans) - 1 - i).End))
    /\ out' = spliced(out, At(spans, Len(spans) - 1 - i), transform)
    /\ log' = Append(log, [idx |-> Len(spans) - 1 - i,
                           text |-> Apply(transform,
                                          Slice(out, At(spans, Len(spans) - 1 - i).Start,
                                                At(spans, Len(spans) - 1 - i).End))])
    /\ i' = i - 1
    /\ UNCHANGED <<body, toks, pc, spans, transform, calls>>

\* One iteration whose checks pass: out is the working buffer.
SpliceStep ==
    /\ pc = "splice" /\ i >= 0
    /\ spanInRange(out, At(spans, i))
    /\ utf8Valid(Slice(out, At(spans, i).Start, At(spans, i).End))
    /\ out' = spliced(out, At(spans, i), transform)
    /\ log' = Append(log, [idx |-> i,
                           text |-> Apply(transform,
                                          Slice(out, At(spans, i).Start, At(spans, i).End))])
    /\ i' = i - 1
    /\ UNCHANGED <<body, toks, pc, spans, transform, calls>>

\* log.Fatalf("invalid span range ...")
SpliceFatalRange ==
    /\ pc = "splice" /\ i >= 0
    /\ ~spanInRange(out, At(spans, i))
    /\ pc' = "fatal"
    /\ UNCHANGED <<body, toks, i, out, log, spans, transform, calls>>

\* log.Fatalf("span not valid utf8 ...")
SpliceFatalUtf8 ==
    /\ pc = "splice" /\ i >= 0
    /\ spanInRange(out, At(spans, i))
    /\ ~utf8Valid(Slice(out, At(spans, i).Start, At(spans, i).End))
    /\ pc' = "fatal"
    /\ UNCHANGED <<body, toks, i, out, log, spans, transform, calls>>

\* return string(body)
SpliceReturn ==
    /\ pc = "splice" /\ i < 0
    /\ pc' = "returned"
    /\ UNCHANGED <<body, toks, i, out, log, spans, transform, calls>>

SpliceNext ==
    \/ SpliceStep
    \/ SpliceFatalRange
    \/ SpliceFatalUtf8
    \/ SpliceReturn

\* translateBodyUsingRanges on any input file.
SpecSplice == SpliceInit /\ [][SpliceNext]_vars

(* ------------- parseAndWriteJSON, then translateBodyUsingRanges --------- *)

RECURSIVE jsonRoundTrip(_)
\* A string written by json.MarshalIndent and read back by json.Unmarshal:
\* the characters of valid UTF-8 come back as they were, and every byte that
\* belongs to no valid character comes back as U+FFFD (EF BF BD).
jsonRoundTrip(s) ==
    IF s = << >> THEN << >>
    ELSE IF Head(s) = "C3" /\ Len(s) >= 2 /\ s[2] \in ContinuationBytes
    THEN <<s[1], s[2]>> \o jsonRoundTrip(SubSeq(s, 3, Len(s)))
    ELSE IF Head(s) \in {"C3"} \cup ContinuationBytes
    THEN <<"EF", "BF", "BD">> \o jsonRoundTrip(Tail(s))
    ELSE <<Head(s)>> \o jsonRoundTrip(Tail(s))

RECURSIVE textSpansAllTokens(_)
\* The span list taking every token, whatever its type.
textSpansAllTokens(tk) ==
    IF tk = << >> THEN << >>
    ELSE <<[Start |-> Head(tk).Start, End |-> Head(tk).End, Text |-> Head(tk).Val]>>
             \o textSpansAllTokens(Tail(tk))

RECURSIVE textSpans(_)
\* parseAndWriteJSON's textSpans: one TextSpan per tText token with a
\* non-empty value, in the order of the tokens.
textSpans(tk) ==
    IF tk = << >> THEN << >>
    ELSE IF Head(tk).Typ = "tText" /\ Len(Head(tk).Val) > 0
    THEN <<[Start |-> Head(tk).Start, End |-> Head(tk).End, Text |-> Head(tk).Val]>>
             \o textSpans(Tail(tk))
    ELSE textSpans(Tail(tk))

\* The pieces of the content files: text, text with a two-byte character,
\* tags of both styles, a closing tag, an unterminated tag.
PieceWord == <<"C3", "A9", "b", " ">>

PipePieces ==
    {PieceText, PieceWord, PieceOpenA, PieceCloseA, PieceOpenB, PieceUnterminated}

\* cf.Content: the body of a content file, UTF-8 text.
PipeDocs == {Concat(ps) : ps \in UNION {[1..m -> PipePieces] : m \in 0..MaxPieces}}

\* main before parseAndWriteJSON: body is cf.Content.
InitPipe ==
    /\ body \in PipeDocs
    /\ transform \in CodeTransformers
    /\ toks = << >>
    /\ spans = << >>
    /\ pc = "parse"
    /\ i = 0
    /\ out = << >>
    /\ log = << >>
    /\ calls = << >>

\* parseAndWriteJSON writes the tokens and the text spans of the body; then
\* translateBodyUsingRanges reads them back, with body := []byte(in.ContentRaw)
\* and its loop index on the last span.
ParseAndWriteJSON ==
    /\ pc = "parse"
    /\ toks' = tokenizeShortcodes(body)
    /\ spans' = [k \in 1..Len(textSpans(tokenizeShortcodes(body))) |->
                    [textSpans(tokenizeShortcodes(body))[k] EXCEPT
                        !.Text = jsonRoundTrip(@)]]
    /\ out' = jsonRoundTrip(body)
    /\ i' = Len(textSpans(tokenizeShortcodes(body))) - 1
    /\ pc' = "splice"
    /\ UNCHANGED <<body, log, transform, calls>>

\* The two steps of main on a content file. SpliceFatalRange and
\* SpliceFatalUtf8 are no steps of this specification: their conditions never
\* hold for the spans parseAndWriteJSON lists (SpansPassChecks).
NextPipe ==
    \/ ParseAndWriteJSON
    \/ SpliceStep
    \/ SpliceReturn

SpecPipe == InitPipe /\ [][NextPipe]_vars

\* The walk of a lexed document never stands on a right delimiter.
NoStrayRightDelim ==
    (pc = "render" /\ i < Len(toks)) => ~isRightDelim(At(toks, i).Typ)

(* --------------------- tag occurrences of a stream ---------------------- *)
(* The notions the properties below are stated with, read off the token    *)
(* stream itself: a tag occurrence is a left delimiter with a right        *)
(* delimiter after it; it is a closing occurrence when a tScClose token    *)
(* follows the left delimiter, and its name is the value of its tScName    *)
(* token.                                                                  *)

IsOcc(tk, k) ==
    /\ k < Len(tk)
    /\ isLeftDelim(At(tk, k).Typ)
    /\ \E r \in (k + 1)..(Len(tk) - 1) : isRightDelim(At(tk, r).Typ)

\* The right delimiter of the occurrence at k.
OccRight(tk, k) ==
    CHOOSE r \in (k + 1)..(Len(tk) - 1) :
        /\ isRightDelim(At(tk, r).Typ)
        /\ \A q \in (k + 1)..(r - 1) : ~isRightDelim(At(tk, q).Typ)

OccClosing(tk, k) == At(tk, k + 1).Typ = "tScClose"

OccName(tk, k) ==
    LET n == IF OccClosing(tk, k) THEN k + 2 ELSE k + 1
    IN  IF At(tk, n).Typ = "tScName" THEN At(tk, n).Val ELSE << >>

IsOpeningOcc(tk, k) == IsOcc(tk, k) /\ ~OccClosing(tk, k)

IsClosingOcc(tk, k) == IsOcc(tk, k) /\ OccClosing(tk, k)

\* The bytes between the delimiters of the occurrence at k, outer white
\* space removed.
OccInterior(tk, b, k) ==
    TrimSpace(Slice(b, At(tk, k).End, At(tk, OccRight(tk, k)).Start))

RECURSIVE OccsFrom(_, _)
\* The indices of the occurrences at or after k, in stream order.
OccsFrom(tk, k) ==
    IF k >= Len(tk) THEN << >>
    ELSE IF IsOcc(tk, k) THEN <<k>> \o OccsFrom(tk, k + 1)
    ELSE OccsFrom(tk, k + 1)

\* The last position of open whose opener is named name, 0 if none.
LastOpen(tk, open, name) ==
    LET ps == {p \in 1..Len(open) : OccName(tk, open[p]) = name}
    IN  IF ps = {} THEN 0 ELSE CHOOSE p \in ps : \A q \in ps : q <= p

RECURSIVE StackPass(_, _, _, _)
\* Bracket matching per name: a closing occurrence takes the nearest earlier
\* opener of its name that no closing occurrence took before.  open holds
\* the openers not taken yet, acc the ones taken.
StackPass(tk, ks, open, acc) ==
    IF ks = << >> THEN acc
    ELSE LET k == Head(ks)
             p == LastOpen(tk, open, OccName(tk, k))
         IN  IF ~OccClosing(tk, k)
             THEN StackPass(tk, Tail(ks), Append(open, k), acc)
             ELSE IF p = 0 THEN StackPass(tk, Tail(ks), open, acc)
             ELSE StackPass(tk, Tail(ks),
                            SubSeq(open, 1, p - 1) \o SubSeq(open, p + 1, Len(open)),
                            acc \cup {open[p]})

\* The opening occurrences that have a matching closing occurrence.
MatchedOpeners(tk) == StackPass(tk, OccsFrom(tk, 0), << >>, {})

SelfClosed(tk, b, k) ==
    <<"{", "%", " ">> \o OccInterior(tk, b, k) \o <<" ", "/", "%", "}">>

PairedOpen(tk, b, k) ==
    <<"{", "%", " ">> \o OccInterior(tk, b, k) \o <<" ", "%", "}">>

\* The log entries of the tokens that satisfy P.
Entries(P(_)) == {n \in 1..Len(log) : P(log[n].idx)}

(* ------------------------------- C1 ------------------------------------- *)

C1Case(k) ==
    /\ IsOpeningOcc(toks, k)
    /\ OccName(toks, k) # << >>
    /\ k \notin MatchedOpeners(toks)

\* C1: an opening occurrence with a name and no matching closing occurrence
\* of its name after it is written as "{% " + trimmed interior + " /%}";
\* the text tokens around it are written as they are in the buffer; and in a
\* stream with no closing tag at all every named opening occurrence is
\* written self-closing.
C1_StandaloneSelfClosing ==
    /\ pc = "done" => \A n \in 1..Len(log) :
          LET k == log[n].idx
          IN  /\ C1Case(k) => log[n].text = SelfClosed(toks, body, k)
              /\ At(toks, k).Typ = "tText" =>
                     log[n].text = Slice(body, At(toks, k).Start, At(toks, k).End)
              /\ ( /\ \A q \in 0..(Len(toks) - 1) : At(toks, q).Typ # "tScClose"
                   /\ IsOpeningOcc(toks, k)
                   /\ OccName(toks, k) # << >> )
                 => log[n].text = SelfClosed(toks, body, k)
    /\ (pc = "done" /\ body = PieceOpenA \o PieceOpenA)
           => out = <<"{","%"," ","a"," ","\"","q","\""," ","/","%","}",
                      "{","%"," ","a"," ","\"","q","\""," ","/","%","}">>

\* Two tags of one name with a text token between them, in a stream with no
\* closing tag, all three written.
C1_Witness ==
    /\ pc = "done"
    /\ \A q \in 0..(Len(toks) - 1) : At(toks, q).Typ # "tScClose"
    /\ \E n \in 1..(Len(log) - 2) :
          /\ C1Case(log[n].idx) /\ C1Case(log[n + 2].idx)
          /\ OccName(toks, log[n].idx) = OccName(toks, log[n + 2].idx)
          /\ At(toks, log[n + 1].idx).Typ = "tText"

(* ------------------------------- C2 ------------------------------------- *)

C2Case(k) ==
    /\ IsOpeningOcc(toks, k)
    /\ OccName(toks, k) # << >>
    /\ hasMatchingClose(toks, body, OccRight(toks, k), OccName(toks, k))

\* C2: an opening occurrence with a name for which hasMatchingClose finds a
\* closing occurrence is written as "{% " + trimmed interior + " %}", the
\* interior being the buffer's bytes between its delimiters; the text tokens
\* after it are written as they are in the buffer.
C2_PairedOpening ==
    /\ pc = "done" => \A n \in 1..Len(log) :
          C2Case(log[n].idx) =>
              /\ log[n].text = PairedOpen(toks, body, log[n].idx)
              /\ \A m \in (n + 1)..Len(log) :
                    At(toks, log[m].idx).Typ = "tText" =>
                        log[m].text = At(toks, log[m].idx).Val
    /\ (pc = "done" /\ body = PieceOpenA \o PieceText \o PieceCloseA)
           => out = <<"{","%"," ","a"," ","\"","q","\""," ","%","}", "x",
                      "{","%"," ","/","a"," ","%","}">>

\* A paired tag with a text token between it and its closing tag, whose
\* interior has a parameter and lost outer white space.
C2_Witness ==
    /\ pc = "done"
    /\ \E n \in 1..(Len(log) - 2) :
          /\ C2Case(log[n].idx)
          /\ At(toks, log[n + 1].idx).Typ = "tText"
          /\ IsClosingOcc(toks, log[n + 2].idx)
          /\ OccName(toks, log[n + 2].idx) = OccName(toks, log[n].idx)
          /\ OccInterior(toks, body, log[n].idx) # OccName(toks, log[n].idx)
          /\ Len(OccInterior(toks, body, log[n].idx))
                 < At(toks, OccRight(toks, log[n].idx)).Start - At(toks, log[n].idx).End

(* ------------------------------- C3 ------------------------------------- *)

C3Case(k) ==
    /\ isLeftDelim(At(toks, k).Typ)
    /\ nextIsScClose(toks, k)
    /\ getInterior(toks, body, k).name # << >>

\* C3: a left delimiter followed by a close marker whose name resolves is
\* written as exactly "{% /" + name + " %}", the name being the tag's name
\* token: no white space of the source closing tag is written.
C3_ClosingNormalized ==
    pc = "done" => \A n \in 1..Len(log) :
        LET k == log[n].idx
        IN  C3Case(k) =>
                /\ IsClosingOcc(toks, k)
                /\ OccName(toks, k) # << >>
                /\ \A c \in Range(OccName(toks, k)) : ~IsSpaceByte(c) /\ c # "/"
                /\ log[n].text =
                       <<"{", "%", " ", "/">> \o OccName(toks, k) \o <<" ", "%", "}">>

\* Closing tags of both delimiter styles written, each with white space
\* around the slash and the name in the source.
C3_Witness ==
    /\ pc = "done"
    /\ \E m, n \in 1..Len(log) :
          /\ C3Case(log[m].idx) /\ C3Case(log[n].idx)
          /\ At(toks, log[m].idx).Typ = "tLeftDelimScNoMarkup"
          /\ At(toks, log[n].idx).Typ = "tLeftDelimScWithMarkup"
          /\ \A k \in {log[m].idx, log[n].idx} :
                /\ At(toks, k + 1).Start > At(toks, k).End
                /\ At(toks, k + 2).Start > At(toks, k + 1).End
                /\ At(toks, OccRight(toks, k)).Start > At(toks, k + 2).End

(* ------------------------------- C4 ------------------------------------- *)

\* The tag names of the documents.
TagNames == {<<"a">>, <<"b">>}

RECURSIVE DepthScan(_, _, _, _)
\* The depth counter of C4 over the occurrences ks: TRUE at a closing
\* occurrence named name met at depth 0, FALSE at the end.
DepthScan(tk, ks, depth, name) ==
    IF ks = << >> THEN FALSE
    ELSE LET k == Head(ks)
         IN  IF OccName(tk, k) # name THEN DepthScan(tk, Tail(ks), depth, name)
             ELSE IF ~OccClosing(tk, k) THEN DepthScan(tk, Tail(ks), depth + 1, name)
             ELSE IF depth = 0 THEN TRUE
             ELSE DepthScan(tk, Tail(ks), depth - 1, name)

\* C4: hasMatchingClose(tokens, buffer, fromIndex, name) is TRUE exactly when
\* the occurrences strictly after fromIndex hold a closing occurrence named
\* name reached at depth 0, the depth starting at 0, raised by each opening
\* occurrence named name and lowered by each closing occurrence named name
\* reached at depth > 0; it is FALSE at the end of the stream otherwise.
C4_DepthCounter ==
    pc = "done" =>
        \A from \in -1..(Len(toks) - 1) : \A name \in TagNames :
            hasMatchingClose(toks, body, from, name)
                = DepthScan(toks, OccsFrom(toks, from + 1), 0, name)

\* The opener at k is matched by a closing tag met after a nested pair of
\* its name (depth raised to 1 and lowered again).
C4NestedMatched(k) ==
    /\ C2Case(k)
    /\ \E p, q, r \in (k + 1)..(Len(toks) - 1) :
          /\ p < q /\ q < r
          /\ IsOpeningOcc(toks, p) /\ OccName(toks, p) = OccName(toks, k)
          /\ IsClosingOcc(toks, q) /\ OccName(toks, q) = OccName(toks, k)
          /\ IsClosingOcc(toks, r) /\ OccName(toks, r) = OccName(toks, k)

\* A tag written paired whose closing tag the scan met at depth 0 after a
\* nested pair of the same name, in a stream whose nested opener is matched
\* by the first closing tag.
C4_Witness ==
    /\ pc = "done"
    /\ \E m \in 1..Len(log) :
          /\ C4NestedMatched(log[m].idx)
          /\ log[m].text = PairedOpen(toks, body, log[m].idx)

(* ------------------------------- C5 ------------------------------------- *)

\* The token at q belongs to an occurrence after from whose name is not name.
InOtherOcc(tk, from, name, q) ==
    \E k \in (from + 1)..q :
        /\ IsOcc(tk, k)
        /\ OccName(tk, k) # name
        /\ q <= OccRight(tk, k)

RECURSIVE KeepFrom(_, _, _, _)
KeepFrom(tk, from, name, q) ==
    IF q >= Len(tk) THEN << >>
    ELSE IF InOtherOcc(tk, from, name, q) THEN KeepFrom(tk, from, name, q + 1)
    ELSE <<At(tk, q)>> \o KeepFrom(tk, from, name, q + 1)

\* The stream with every occurrence after from of another name taken out.
RemoveOthers(tk, from, name) ==
    SubSeq(tk, 1, from + 1) \o KeepFrom(tk, from, name, from + 1)

C5Case(k) == IsOpeningOcc(toks, k) /\ OccName(toks, k) # << >>

\* C5: the classifier's answer for a named opening occurrence, and with it
\* the form the tag is written in, is the answer it gives on the stream with
\* the later occurrences of every other name removed; a pair nested in a
\* pair of another name and two interleaved pairs are written paired.
C5_NameScoped ==
    /\ pc = "done" => \A n \in 1..Len(log) :
          LET k == log[n].idx
              r == OccRight(toks, k)
              name == OccName(toks, k)
          IN  C5Case(k) =>
                  /\ hasMatchingClose(toks, body, r, name)
                         = hasMatchingClose(RemoveOthers(toks, r, name), body, r, name)
                  /\ (log[n].text = PairedOpen(toks, body, k))
                         = hasMatchingClose(RemoveOthers(toks, r, name), body, r, name)
    /\ (pc = "done" /\ body = PieceOpenA \o PieceOpenB \o PieceCloseA \o PieceCloseB)
           => out = <<"{","%"," ","a"," ","\"","q","\""," ","%","}",
                      "{","%"," ","b"," ","%","}",
                      "{","%"," ","/","a"," ","%","}",
                      "{","%"," ","/","b"," ","%","}">>
    /\ (pc = "done" /\ body = PieceOpenB \o PieceOpenA \o PieceCloseA \o PieceCloseB)
           => out = <<"{","%"," ","b"," ","%","}",
                      "{","%"," ","a"," ","\"","q","\""," ","%","}",
                      "{","%"," ","/","a"," ","%","}",
                      "{","%"," ","/","b"," ","%","}">>

\* Two interleaved pairs of different names, both written paired.
C5_Witness ==
    /\ pc = "done"
    /\ \E m, n \in 1..Len(log) :
          /\ m < n
          /\ C2Case(log[m].idx) /\ C2Case(log[n].idx)
          /\ OccName(toks, log[m].idx) # OccName(toks, log[n].idx)
          /\ \E p, q \in 1..Len(log) :
                /\ n < p /\ p < q
                /\ IsClosingOcc(toks, log[p].idx) /\ IsClosingOcc(toks, log[q].idx)
                /\ OccName(toks, log[p].idx) = OccName(toks, log[m].idx)
                /\ OccName(toks, log[q].idx) = OccName(toks, log[n].idx)

(* ------------------------------- C6 ------------------------------------- *)

OnlyText(tk) == \A k \in 0..(Len(tk) - 1) : At(tk, k).Typ = "tText"

Tokenized == pc = "render" /\ log = << >>

\* The byte at offset p is inside some token.
Covered(p) == \E k \in 0..(Len(toks) - 1) : At(toks, k).Start <= p /\ p < At(toks, k).End

\* The byte at offset p lies in a tag construct: a left delimiter token ends
\* at or before it and no right delimiter token lies between them.
InsideTag(p) ==
    \E k \in 0..(Len(toks) - 1) :
        /\ isLeftDelim(At(toks, k).Typ)
        /\ At(toks, k).End <= p
        /\ \A q \in (k + 1)..(Len(toks) - 1) :
              isRightDelim(At(toks, q).Typ) => At(toks, q).Start > p

ExactPartition ==
    /\ toks # << >> =>
          /\ At(toks, 0).Start = 0
          /\ At(toks, Len(toks) - 1).End = Len(body)
    /\ \A k \in 0..(Len(toks) - 2) : At(toks, k + 1).Start = At(toks, k).End
    /\ Concat([k \in 1..Len(toks) |-> toks[k].Val]) = body

CharBoundary(b, p) == p >= Len(b) \/ At(b, p) \notin ContinuationBytes

\* The span satisfies the preconditions of the splice on buffer b.
ValidSpan(b, span) ==
    /\ 0 <= span.Start /\ span.Start <= span.End /\ span.End <= Len(b)
    /\ CharBoundary(b, span.Start) /\ CharBoundary(b, span.End)

\* Disjoint spans, listed in ascending order (the TextSpan list of the data
\* model).
AscendingDisjoint(sp) == \A k \in 1..(Len(sp) - 1) : sp[k].End <= sp[k + 1].Start

RECURSIVE ReplacedFrom(_, _, _, _, _)
\* The buffer b from offset pos on, read left to right, each span from the
\* k-th on replaced by its transformed fragment.
ReplacedFrom(b, sp, t, k, pos) ==
    IF k > Len(sp) THEN Slice(b, pos, Len(b))
    ELSE Slice(b, pos, sp[k].Start)
             \o Apply(t, Slice(b, sp[k].Start, sp[k].End))
             \o ReplacedFrom(b, sp, t, k + 1, sp[k].End)

C8Case ==
    /\ \A k \in 1..Len(spans) : ValidSpan(body, spans[k])
    /\ AscendingDisjoint(spans)

NonOverlapping(sp) ==
    \A j, k \in 1..Len(sp) :
        j # k => (sp[j].End <= sp[k].Start \/ sp[k].End <= sp[j].Start)

C9Case ==
    /\ transform = "identity"
    /\ \A k \in 1..Len(spans) : ValidSpan(body, spans[k])
    /\ NonOverlapping(spans)

\* C9: with the identity transformer and valid non-overlapping spans, in any
\* order, the splice returns a buffer equal to the original one.
C9_IdentitySplice ==
    C9Case =>
        /\ pc # "fatal"
        /\ pc = "returned" => out = body

\* Two non-empty spans, listed in descending order, spliced with the identity.
C9_Witness ==
    /\ pc = "returned" /\ C9Case /\ Len(log) = 2
    /\ spans[2].Start < spans[2].End /\ spans[2].End <= spans[1].Start
    /\ spans[1].Start < spans[1].End

(* ------------------------------- C10 ------------------------------------ *)

\* The span breaks a precondition C10 names, on the original buffer.
InvalidSpan(b, span) ==
    \/ span.Start > span.End
    \/ span.End > Len(b)
    \/ ~CharBoundary(b, span.Start)
    \/ ~CharBoundary(b, span.End)

\* C10: when some span has start > end, end > len(original buffer) or a
\* boundary inside a multi-byte character, the operation never returns a
\* buffer.
C10_InvalidSpanIsFatal ==
    (\E k \in 1..Len(spans) : InvalidSpan(body, spans[k])) => pc # "returned"

(* ------------------------------- C11 ------------------------------------ *)

\* The spans already spliced were taken in descending order of start.
SplicedDescending ==
    \A m, n \in 1..Len(log) :
        m < n => At(spans, log[m].idx).Start >= At(spans, log[n].idx).Start

\* The span about to be processed addresses, in the working buffer, the bytes
\* it addresses in the original buffer.
NextSpanAddressesOriginal ==
    (pc = "splice" /\ i >= 0) =>
        /\ spanInRange(out, At(spans, i))
        /\ Slice(out, At(spans, i).Start, At(spans, i).End)
               = Slice(body, At(spans, i).Start, At(spans, i).End)

\* C11 as stated: valid disjoint spans, listed in any order, are processed in
\* descending order of start, and each still addresses its original bytes
\* when it is processed.
C11_DescendingWhateverOrder ==
    ((\A k \in 1..Len(spans) : ValidSpan(body, spans[k])) /\ NonOverlapping(spans)) =>
        (SplicedDescending /\ NextSpanAddressesOriginal)

\* C11: the spans are processed from the last listed to the first; when the
\* list is valid, disjoint and ascending by start, that is descending order
\* of start, and each span still addresses its original bytes when it is
\* processed.
C11_ReverseListOrder ==
    /\ \A n \in 1..Len(log) : log[n].idx = Len(spans) - n
    /\ C8Case => (SplicedDescending /\ NextSpanAddressesOriginal)

\* The lower of two non-empty spans is about to be processed after the
\* splice of the higher one has changed the length of the buffer.
C11_Witness ==
    /\ pc = "splice" /\ i = 0 /\ Len(log) = 1 /\ C8Case /\ transform = "piglatin"
    /\ spans[1].Start < spans[1].End /\ spans[2].Start < spans[2].End
    /\ Len(out) # Len(body)

(* ------------------------------- C12 ------------------------------------ *)

\* The three bytes at offset p of b, when there are three.
ThreeAt(b, p) == IF p + 3 <= Len(b) THEN Slice(b, p, p + 3) ELSE << >>

OpenDelimAt(b, p) == ThreeAt(b, p) \in {<<"{", "{", "<">>, <<"{", "{", "%">>}

CloseDelimAt(b, p) == ThreeAt(b, p) \in {<<">", "}", "}">>, <<"%", "}", "}">>}

\* An opening delimiter at offset p with no closing delimiter of any style
\* after it.
UnterminatedAt(b, p) ==
    /\ OpenDelimAt(b, p)
    /\ \A q \in (p + 1)..Len(b) : ~CloseDelimAt(b, q)

EndsWith(s, t) == Len(t) <= Len(s) /\ SubSeq(s, Len(s) - Len(t) + 1, Len(s)) = t

\* C12: when an opening delimiter has no closing delimiter after it, the
\* conversion ends with the source bytes from that opening delimiter to the
\* end of the buffer.
C12_UnterminatedIsLiteral ==
    pc = "done" =>
        \A p \in 0..Len(body) :
            UnterminatedAt(body, p) => EndsWith(out, Slice(body, p, Len(body)))

(* ------------------------------- C13 ------------------------------------ *)

\* The indexes greater than k that hold a right delimiter token.
RightDelimsAfter(tk, k) == {j \in (k + 1)..(Len(tk) - 1) : isRightDelim(At(tk, j).Typ)}

Least(S) == CHOOSE j \in S : \A q \in S : j <= q

\* What C13 says the resolver returns for index k.
ResolvedAsStated(tk, b, k) ==
    LET g == getInterior(tk, b, k)
        R == RightDelimsAfter(tk, k)
    IN  IF R = {}
        THEN g.interior = << >> /\ g.name = << >> /\ g.rightIdx = k
        ELSE /\ g.rightIdx = Least(R)
             /\ g.interior = TrimSpace(Slice(b, At(tk, k).End, At(tk, Least(R)).Start))

\* C13: for every index of the token stream, getInterior returns an empty
\* interior, an empty name and the index itself when no right delimiter
\* follows; otherwise the smallest later index of a right delimiter and the
\* trimmed buffer bytes between the two tokens.
C13_GetInterior ==
    Tokenized => \A k \in 0..(Len(toks) - 1) : ResolvedAsStated(toks, body, k)

\* A stream with a left delimiter that no right delimiter follows, and one
\* followed by two right delimiters whose interior has outer white space.
C13_Witness ==
    /\ Tokenized
    /\ \E k \in 0..(Len(toks) - 1) :
          isLeftDelim(At(toks, k).Typ) /\ RightDelimsAfter(toks, k) = {}
    /\ \E k \in 0..(Len(toks) - 1) :
          /\ isLeftDelim(At(toks, k).Typ)
          /\ Cardinality(RightDelimsAfter(toks, k)) >= 2
          /\ LET inner == Slice(body, At(toks, k).End,
                                At(toks, Least(RightDelimsAfter(toks, k))).Start)
             IN  TrimSpace(inner) # inner /\ TrimSpace(inner) # << >>

(* ------------------------------- C14 ------------------------------------ *)

\* The style of a delimiter token, from its type.
DelimStyle(typ) ==
    IF typ \in {"tLeftDelimScNoMarkup", "tRightDelimScNoMarkup"} THEN "NoMarkup"
    ELSE "WithMarkup"

\* The bytes of the right delimiter of a style.
RightDelimBytes(style) ==
    IF style = "NoMarkup" THEN <<">", "}", "}">> ELSE <<"%", "}", "}">>

\* The left delimiter at k has a resolved right delimiter.
Resolved(tk, b, k) == isLeftDelim(At(tk, k).Typ) /\ getInterior(tk, b, k).rightIdx > k

\* C14: the right delimiter resolved for a left delimiter is a right
\* delimiter token of the left delimiter's style, with that style's bytes.
C14_NoCrossMatch ==
    Tokenized =>
        \A k \in 0..(Len(toks) - 1) :
            Resolved(toks, body, k) =>
                LET right == At(toks, getInterior(toks, body, k).rightIdx)
                    style == DelimStyle(At(toks, k).Typ)
                IN  /\ isRightDelim(right.Typ)
                    /\ DelimStyle(right.Typ) = style
                    /\ right.Val = RightDelimBytes(style)

\* A resolved tag of each style, and a left delimiter that stays unresolved
\* although the bytes of the other style's right delimiter follow its name.
C14_Witness ==
    /\ Tokenized
    /\ \E k \in 0..(Len(toks) - 1) :
          Resolved(toks, body, k) /\ DelimStyle(At(toks, k).Typ) = "NoMarkup"
    /\ \E k \in 0..(Len(toks) - 1) :
          Resolved(toks, body, k) /\ DelimStyle(At(toks, k).Typ) = "WithMarkup"
    /\ \E k \in 0..(Len(toks) - 1) :
          /\ isLeftDelim(At(toks, k).Typ) /\ ~Resolved(toks, body, k)
          /\ \E p \in At(toks, k).End..Len(body) :
                ThreeAt(body, p) \in {<<">", "}", "}">>, <<"%", "}", "}">>}
                /\ ThreeAt(body, p) # RightDelimBytes(DelimStyle(At(toks, k).Typ))

(* ------------------------------- C15 ------------------------------------ *)

\* Every iteration of the walk raises the walk index.
WalkAdvances == (pc = "render" /\ pc' = "render") => i' > i

\* An iteration of a classifier scan raises the scan index, at whatever
\* index of the stream it stands.
ScanAdvances == \A k \in 0..(Len(toks) - 1) : scanNext(toks, body, k) > k

\* C15: on every token stream the walk index rises on every iteration of
\* the walk, the scan index rises on every iteration of a scan, and the
\* render returns.
C15_WalkAndScanTerminate ==
    /\ [][WalkAdvances]_vars
    /\ []ScanAdvances
    /\ (pc = "render") ~> (pc = "done")

\* The render has returned after an opening and a closing left delimiter
\* that no right delimiter follows.
C15_Witness ==
    /\ pc = "done"
    /\ \E m, n \in 1..Len(log) :
          /\ isLeftDelim(At(toks, log[m].idx).Typ) /\ ~nextIsScClose(toks, log[m].idx)
          /\ ~Resolved(toks, body, log[m].idx)
          /\ isLeftDelim(At(toks, log[n].idx).Typ) /\ nextIsScClose(toks, log[n].idx)
          /\ ~Resolved(toks, body, log[n].idx)

(* ------------------------------- C16 ------------------------------------ *)

VowelsAnyCase == {"a", "e", "i", "o", "u", "A", "E", "I", "O", "U"}

\* The offsets of the vowels of word w.
VowelOffsets(w) == {k \in 0..(Len(w) - 1) : At(w, k) \in VowelsAnyCase}

\* Word s with its first letter in upper case and the rest in lower case.
Capitalized(s) == <<ToUpperByte(s[1])>> \o ToLower(Tail(s))

\* What C17 says pigWord returns for a word of ASCII letters.
PigWordAsStated(w) ==
    IF w = << >> THEN << >>
    ELSE LET lower == ToLower(w)
             V == VowelOffsets(w)
             moved == IF V = {} THEN lower \o <<"a", "y">>
                      ELSE IF 0 \in V THEN lower \o <<"w", "a", "y">>
                      ELSE Slice(lower, Least(V), Len(w)) \o Slice(lower, 0, Least(V))
                               \o <<"a", "y">>
         IN  IF w[1] \in Range(UpperLetters) /\ V # {} THEN Capitalized(moved) ELSE moved

\* C17: pigWord maps the empty word to itself, a word starting with a vowel
\* to its lower case plus "way", a word starting with consonants to its lower
\* case with the leading consonants moved to the end plus "ay", a word
\* without vowel to its lower case plus "ay", and gives the result a capital
\* first letter when the word starts with a capital and has a vowel.
C17_PigWord == pc = "pigged" => out = PigWordAsStated(body)

\* pigWord has returned for a word that starts with a capital consonant and
\* has a capital vowel after it.
C17_Witness ==
    /\ pc = "pigged" /\ Len(body) >= 2
    /\ body[1] \in Range(UpperLetters) /\ body[1] \notin VowelsAnyCase
    /\ \E k \in 2..Len(body) : body[k] \in Range(UpperLetters) \cap VowelsAnyCase
    /\ out[1] \in Range(UpperLetters)
    /\ \A k \in 2..Len(out) : out[k] \in Range(LowerLetters)

(* ------------------------------- C18 ------------------------------------ *)

\* The walk index after the iteration logged as entry n.
IndexAfter(n) == IF n < Len(log) THEN log[n + 1].idx ELSE i

\* The forms in which an iteration on a left delimiter may write the trimmed
\* interior x taken from the buffer, or the name taken from it.
TagForms(x, name) ==
    {<<"{", "%", " ">> \o x \o <<" ", "%", "}">>,
     <<"{", "%", " ">> \o x \o <<" ", "/", "%", "}">>,
     <<"{", "%", " ", "/">> \o name \o <<" ", "%", "}">>,
     <<"{", "%", " ", "/", " ", "%", "}">>}

RECURSIVE LogTexts(_)
\* What the iterations logged have written, in order.
LogTexts(l) == IF l = << >> THEN << >> ELSE Head(l).text \o LogTexts(Tail(l))

\* C18: once the walk has handled a left delimiter at k whose right
\* delimiter is resolved at c > k, no token at an index in (k, c] gets an
\* iteration of its own, the walk resumes at c + 1, and that one iteration
\* wrote the interior once, as the trimmed bytes buffer[left.End:right.Start]
\* (or the name taken from them); the output is what the iterations wrote.
C18_ConsumedSpanNotReemitted ==
    (pc \in {"render", "done"}) =>
        /\ out = LogTexts(log)
        /\ \A n \in 1..Len(log) :
              Resolved(toks, body, log[n].idx) =>
                  LET k == log[n].idx
                      c == Least(RightDelimsAfter(toks, k))
                      x == TrimSpace(Slice(body, At(toks, k).End, At(toks, c).Start))
                  IN  /\ \A m \in 1..Len(log) : ~(log[m].idx > k /\ log[m].idx <= c)
                      /\ IndexAfter(n) = c + 1
                      /\ log[n].text \in TagForms(x, getInterior(toks, body, k).name)

\* The walk has handled an opening tag with a name and a parameter token
\* between its delimiters, then a token after its right delimiter.
C18_Witness ==
    /\ pc = "done"
    /\ \E n \in 1..(Len(log) - 1) :
          /\ Resolved(toks, body, log[n].idx)
          /\ ~nextIsScClose(toks, log[n].idx)
          /\ getInterior(toks, body, log[n].idx).rightIdx >= log[n].idx + 3
          /\ log[n + 1].idx = getInterior(toks, body, log[n].idx).rightIdx + 1
          /\ At(toks, log[n + 1].idx).Typ = "tText"

(* ------------------------------- C19 ------------------------------------ *)

\* The trimmed interior of the occurrence at k read from the buffer, empty
\* when no right delimiter follows.
BufferInterior(tk, b, k) ==
    IF RightDelimsAfter(tk, k) = {} THEN << >>
    ELSE TrimSpace(Slice(b, At(tk, k).End, At(tk, Least(RightDelimsAfter(tk, k))).Start))

\* The occurrence at k has no name: nothing is left of its interior once a
\* leading "/" and white space are taken off.
Unnamed(tk, b, k) ==
    /\ isLeftDelim(At(tk, k).Typ)
    /\ LET x == BufferInterior(tk, b, k)
       IN  x = << >> \/ (x[1] = "/" /\ TrimSpace(Tail(x)) = << >>)

\* C19: an opening occurrence without a name is written as "{% ", its
\* trimmed interior and " %}", never with " /%}", whether or not a closing
\* occurrence follows; a closing occurrence without a name is written as
\* "{% / %}".
C19_UnnamedPassthrough ==
    (pc \in {"render", "done"}) =>
        \A n \in 1..Len(log) :
            Unnamed(toks, body, log[n].idx) =>
                IF nextIsScClose(toks, log[n].idx)
                THEN log[n].text = <<"{", "%", " ", "/", " ", "%", "}">>
                ELSE /\ log[n].text = <<"{", "%", " ">> \o BufferInterior(toks, body, log[n].idx)
                                          \o <<" ", "%", "}">>
                     /\ ~EndsWith(log[n].text, <<" ", "/", "%", "}">>)

\* The walk has written a closing occurrence without a name and an opening
\* occurrence without a name that no closing occurrence without a name
\* follows.
C19_Witness ==
    /\ pc = "done"
    /\ \E n \in 1..Len(log) :
          Unnamed(toks, body, log[n].idx) /\ nextIsScClose(toks, log[n].idx)
    /\ \E n \in 1..Len(log) :
          /\ Unnamed(toks, body, log[n].idx) /\ ~nextIsScClose(toks, log[n].idx)
          /\ ~hasMatchingClose(toks, body, getInterior(toks, body, log[n].idx).rightIdx, << >>)

(* ------------------------------- C20 ------------------------------------ *)

\* What C20 says of the resolved occurrence at k: with a close marker right
\* after the left delimiter the interior starts with "/" and the name is the
\* first field of what follows it; otherwise the name is the first field of
\* the trimmed interior itself.
NamedAsStated(tk, b, k) ==
    LET x == BufferInterior(tk, b, k)
        name == getInterior(tk, b, k).name
    IN  IF nextIsScClose(tk, k)
        THEN x # << >> /\ x[1] = "/" /\ name = FirstField(TrimSpace(Tail(x)))
        ELSE name = FirstField(x)

\* C20: for every resolved occurrence of a lexed document the name is taken
\* as stated, and the walk writes the occurrence as a closing one ("{% /")
\* exactly when a close marker follows its left delimiter.
C20_ClosingByMarker ==
    /\ Tokenized =>
          \A k \in 0..(Len(toks) - 1) : Resolved(toks, body, k) => NamedAsStated(toks, body, k)
    /\ pc = "done" =>
          \A n \in 1..Len(log) :
              Resolved(toks, body, log[n].idx) =>
                  (HasPrefix(log[n].text, <<"{", "%", " ", "/">>)
                      <=> nextIsScClose(toks, log[n].idx))

\* The walk has written a closing occurrence whose name follows "/" and
\* white space, and an opening occurrence whose interior goes on after its
\* name.
C20_Witness ==
    /\ pc = "done"
    /\ \E n \in 1..Len(log) :
          /\ Resolved(toks, body, log[n].idx) /\ nextIsScClose(toks, log[n].idx)
          /\ getInterior(toks, body, log[n].idx).name = <<"a">>
          /\ Len(BufferInterior(toks, body, log[n].idx)) >= 3
    /\ \E n \in 1..Len(log) :
          /\ Resolved(toks, body, log[n].idx) /\ ~nextIsScClose(toks, log[n].idx)
          /\ getInterior(toks, body, log[n].idx).name = <<"a">>
          /\ Len(BufferInterior(toks, body, log[n].idx)) >= 3

(* ------------------------------- C21 ------------------------------------ *)

\* The token at index k is none of text, left delimiter, right delimiter.
OtherKind(tk, k) ==
    /\ At(tk, k).Typ # "tText"
    /\ At(tk, k).Typ \notin {"tLeftDelimScNoMarkup", "tLeftDelimScWithMarkup",
                             "tRightDelimScNoMarkup", "tRightDelimScWithMarkup"}

\* C21: an iteration of the walk that stands on a right delimiter writes
\* nothing, one that stands on a token that is neither text nor a delimiter
\* writes the token's bytes, and the output is what the iterations wrote, in
\* the order of the stream.
C21_StrayRightAndFallback ==
    (pc \in {"render", "done"}) =>
        /\ out = LogTexts(log)
        /\ \A m, n \in 1..Len(log) : m < n => log[m].idx < log[n].idx
        /\ \A n \in 1..Len(log) :
              /\ isRightDelim(At(toks, log[n].idx).Typ) => log[n].text = << >>
              /\ OtherKind(toks, log[n].idx) => log[n].text = At(toks, log[n].idx).Val

\* The walk has stood on a right delimiter that no left delimiter consumed,
\* then on a close marker and on a name, and has returned.
C21_Witness ==
    /\ pc = "done"
    /\ \E m, n, q \in 1..Len(log) :
          /\ m < n /\ n < q
          /\ isRightDelim(At(toks, log[m].idx).Typ)
          /\ At(toks, log[n].idx).Typ = "tScClose"
          /\ At(toks, log[q].idx).Typ = "tScName"
    /\ out # << >>

(* ------------------------------- C22 ------------------------------------ *)

\* The non-empty text tokens, as spans, in the order of the stream.
NonEmptyTextTokens(tk) ==
    LET sel == SelectSeq(tk, LAMBDA t : t.Typ = "tText" /\ t.End > t.Start)
    IN  [k \in 1..Len(sel) |-> [Start |-> sel[k].Start, End |-> sel[k].End, Text |-> sel[k].Val]]

\* The span the splice is about to process passes both of its checks.
SpansPassChecks ==
    (pc = "splice" /\ i >= 0) =>
        /\ spanInRange(out, At(spans, i))
        /\ utf8Valid(Slice(out, At(spans, i).Start, At(spans, i).End))

BufferName(tk, b, k) ==
    LET x == BufferInterior(tk, b, k)
    IN  IF x # << >> /\ x[1] = "/" THEN FirstField(TrimSpace(Tail(x))) ELSE FirstField(x)

\* The iteration logged as entry n was on a left delimiter of an occurrence
\* named name, opening or closing.
OpeningEntry(n, name) ==
    /\ isLeftDelim(At(toks, log[n].idx).Typ)
    /\ ~nextIsScClose(toks, log[n].idx)
    /\ BufferName(toks, body, log[n].idx) = name

ClosingEntry(n, name) ==
    /\ isLeftDelim(At(toks, log[n].idx).Typ)
    /\ nextIsScClose(toks, log[n].idx)
    /\ BufferName(toks, body, log[n].idx) = name

\* Entry n wrote its occurrence in paired form, in self-closing form, as a
\* closing tag of name.
WrotePaired(n) ==
    log[n].text = <<"{", "%", " ">> \o BufferInterior(toks, body, log[n].idx) \o <<" ", "%", "}">>

WroteSelfClosing(n) ==
    log[n].text = <<"{", "%", " ">> \o BufferInterior(toks, body, log[n].idx)
                      \o <<" ", "/", "%", "}">>

WroteClosing(n, name) ==
    log[n].text = <<"{", "%", " ", "/">> \o name \o <<" ", "%", "}">>

\* The names of the occurrences the walk has handled.
LoggedNames ==
    {BufferName(toks, body, log[n].idx) :
        n \in {m \in 1..Len(log) : isLeftDelim(At(toks, log[m].idx).Typ)}} \ {<< >>}

PairedEntries(name) == {n \in 1..Len(log) : OpeningEntry(n, name) /\ WrotePaired(n)}

ClosingEntries(name) == {n \in 1..Len(log) : ClosingEntry(n, name) /\ WroteClosing(n, name)}

\* C23: in a finished render, for every name the opening occurrences written
\* in paired form are at most as many as the closing occurrences written;
\* and of two openers of a name before the only closer of that name, the
\* nearest one is written paired and the earlier one self-closing.
C23_PairedAtMostClosings ==
    (pc = "done") =>
        \A name \in LoggedNames :
            /\ Cardinality(PairedEntries(name)) <= Cardinality(ClosingEntries(name))
            /\ \A m, n, c \in 1..Len(log) :
                  (/\ m < n /\ n < c
                   /\ OpeningEntry(m, name) /\ OpeningEntry(n, name)
                   /\ {q \in 1..Len(log) : ClosingEntry(q, name)} = {c}
                   /\ \A q \in (n + 1)..(c - 1) : ~OpeningEntry(q, name))
                  => (WrotePaired(n) /\ WroteSelfClosing(m))

\* A finished render of two openers of one name and then one closer of it:
\* one paired, one self-closing, one closing tag written.
C23_Witness ==
    /\ pc = "done"
    /\ \E m, n, c \in 1..Len(log) :
          /\ m < n /\ n < c
          /\ OpeningEntry(m, <<"a">>) /\ OpeningEntry(n, <<"a">>)
          /\ WroteSelfClosing(m) /\ WrotePaired(n)
          /\ ClosingEntries(<<"a">>) = {c}
          /\ PairedEntries(<<"a">>) = {n}

(* ------------------------------- C24 ------------------------------------ *)

\* The stream with every delimiter typed as one of the "<" style, values and
\* offsets kept.
OneStyle(tk) ==
    [k \in 1..Len(tk) |->
        IF isLeftDelim(tk[k].Typ) THEN [tk[k] EXCEPT !.Typ = "tLeftDelimScNoMarkup"]
        ELSE IF isRightDelim(tk[k].Typ) THEN [tk[k] EXCEPT !.Typ = "tRightDelimScNoMarkup"]
        ELSE tk[k]]

\* The delimiter style of the occurrence entry n handled.
EntryStyle(n) == styleOf(At(toks, log[n].idx).Typ)

\* C24: an opener followed by a closer of its name in the other style, no
\* occurrence of the name between them, is written paired; and every opener
\* is written as it would be were all the delimiters of the stream of one
\* style, so an opener of the name in the other style counts for the depth
\* as one in the same style.
C24_PairingIgnoresStyle ==
    (pc \in {"render", "done"}) =>
        /\ \A n \in 1..Len(log) :
              (isLeftDelim(At(toks, log[n].idx).Typ) /\ ~nextIsScClose(toks, log[n].idx))
                  => log[n].text = openingText(OneStyle(toks), body, log[n].idx)
        /\ \A m, c \in 1..Len(log) : \A name \in LoggedNames :
              (/\ m < c
               /\ OpeningEntry(m, name) /\ ClosingEntry(c, name)
               /\ EntryStyle(m) # EntryStyle(c)
               /\ \A q \in (m + 1)..(c - 1) :
                     ~OpeningEntry(q, name) /\ ~ClosingEntry(q, name))
              => WrotePaired(m)

\* A finished render of an opener in one style, an opener of the same name
\* in the other style and a closer in the first style: the second opener is
\* paired by the closer of the other style, and the first is self-closing
\* because the second raised the depth.
C24_Witness ==
    /\ pc = "done"
    /\ \E m, n, c \in 1..Len(log) :
          /\ m < n /\ n < c
          /\ OpeningEntry(m, <<"a">>) /\ OpeningEntry(n, <<"a">>) /\ ClosingEntry(c, <<"a">>)
          /\ EntryStyle(m) = "%" /\ EntryStyle(n) = "<" /\ EntryStyle(c) = "%"
          /\ WroteSelfClosing(m) /\ WrotePaired(n)
          /\ \A q \in 1..Len(log) : ClosingEntry(q, <<"a">>) => q = c

====
